---- MODULE Spec2Model ----
(***************************************************************************)
(* Model of the Scheduler helper of report2bq.  The repository holds two   *)
(* copies of the class: src/appengine/classes/scheduler.py ("appengine")   *)
(* and src/classes/scheduler.py ("classes").  One behaviour of the model   *)
(* is one call of Scheduler.process(args) against the scheduling service:  *)
(* the remote calls are the steps, the service's answers the choices.      *)
(***************************************************************************)
EXTENDS Integers, Sequences, FiniteSets, TLC

(***************************************************************************)
(* Bounds of the model.                                                    *)
(***************************************************************************)
MaxPages == 2        \* pages of one job listing
MaxJobs == 2         \* jobs in one listing, all pages together
MaxLocations == 2    \* locations in one listing of locations
MaxSelectors == 2    \* selector fields (sa360_url, ...) present in one call

(***************************************************************************)
(* Python values.  A value carries its type and what str() / an f-string   *)
(* makes of it, so that None is formatted as the text "None".              *)
(***************************************************************************)
None == [t |-> "NoneType", s |-> "None"]
S(x) == [t |-> "str", s |-> x]
I(n) == [t |-> "int", s |-> ToString(n)]
Bool(b) == [t |-> "bool", s |-> IF b THEN "True" ELSE "False"]

\* bool(v): the truth value Python gives v in `if v` and `v or d`
Truthy(v) ==
  CASE v.t = "NoneType" -> FALSE
    [] v.t = "str" -> v.s # ""
    [] v.t = "int" -> v.s # "0"
    [] v.t = "bool" -> v.s = "True"

\* str(v)
str(v) == S(v.s)

\* d.get(k, default) and d.get(k)
GetD(d, k, default) == IF k \in DOMAIN d THEN d[k] ELSE default
Get(d, k) == GetD(d, k, None)

\* d.update(e) and {**d, k: v}
Update(d, e) == e @@ d
EmptyDict == [k \in {} |-> None]

(***************************************************************************)
(* Path helpers.                                                           *)
(***************************************************************************)
project_path(project) == "projects/" \o project.s

location_path(project, loc) ==
  "projects/" \o project.s \o "/locations/" \o loc.s

job_path(project, loc, job) ==
  "projects/" \o project.s \o "/locations/" \o loc.s \o "/jobs/" \o job.s

\* Type.SA360_RPT.value (classes/report_type.py)
SA360_RPT == "sa360_report"

\* upper limit handed to random.randrange(0, 59)
RandStop == 59

\* random.randrange(0, 59): the integers the draw can produce
randrange == 0 .. (RandStop - 1)

(***************************************************************************)
(* Scheduler.process, action 'create': the job specification.              *)
(***************************************************************************)
\* _attrs as first assembled
base_attrs(args) ==
  [email |-> Get(args, "email"),
   project |-> Get(args, "project"),
   force |-> str(Get(args, "force")),
   infer_schema |-> str(Get(args, "infer_schema")),
   append |-> str(Get(args, "append"))]

\* minute: the caller's when truthy, else the random draw rnd
pick_minute(args, rnd) ==
  IF Truthy(Get(args, "minute")) THEN Get(args, "minute") ELSE I(rnd)

\* args.get('hour') if args.get('hour') else d
hour_or(args, d) ==
  IF Truthy(Get(args, "hour")) THEN Get(args, "hour") ELSE S(d)

\* the inner if/else on profile of the last branch; dv is 'dv360' or 'dbm'
profile_part(args, attrs, dv) ==
  IF Truthy(Get(args, "profile"))
  THEN [product |-> "cm", type |-> "cm",
        attrs |-> Update(attrs, [profile |-> Get(args, "profile"),
                                 cm_id |-> Get(args, "report_id"),
                                 type |-> S("cm")])]
  ELSE [product |-> "dv360", type |-> dv,
        attrs |-> Update(attrs, [dv360_id |-> Get(args, "report_id"),
                                 type |-> S(dv)])]

\* the if/elif chain of the appengine copy
appengine_branch(args) ==
  LET attrs == base_attrs(args) IN
  IF Truthy(Get(args, "sa360_url"))
  THEN [product |-> "sa360", type |-> "sa360", hour |-> hour_or(args, "3"),
        action |-> "fetch", topic |-> "report2bq-trigger",
        attrs |-> Update(attrs, [sa360_url |-> Get(args, "sa360_url"),
                                 type |-> S("sa360")]),
        args |-> args]
  ELSE IF Truthy(Get(args, "sa360_id"))
  THEN [product |-> SA360_RPT, type |-> SA360_RPT,
        hour |-> GetD(args, "hour", S("*")),
        action |-> "run", topic |-> "report-runner",
        attrs |-> Update(attrs, [report_id |-> Get(args, "sa360_id"),
                                 type |-> S(SA360_RPT)]),
        args |-> Update(args, [report_id |-> Get(args, "sa360_id")])]
  ELSE IF Truthy(Get(args, "adh_customer"))
  THEN [product |-> "adh", type |-> "adh", hour |-> hour_or(args, "2"),
        action |-> "run", topic |-> "report2bq-trigger",
        attrs |-> Update(attrs, [adh_customer |-> Get(args, "adh_customer"),
                                 adh_query |-> Get(args, "adh_query"),
                                 api_key |-> Get(args, "api_key"),
                                 days |-> Get(args, "days"),
                                 type |-> S("adh")]),
        args |-> args]
  ELSE LET r == IF Truthy(Get(args, "runner"))
                THEN [hour |-> hour_or(args, "1"), action |-> "run",
                      topic |-> "report-runner"]
                ELSE [hour |-> S("*"), action |-> "fetch",
                      topic |-> "report2bq-trigger"]
           p == profile_part(args, attrs, "dv360")
       IN [product |-> p.product, type |-> p.type, hour |-> r.hour,
           action |-> r.action, topic |-> r.topic, attrs |-> p.attrs,
           args |-> args]

\* the if/elif chain of the classes copy
classes_branch(args) ==
  LET attrs == base_attrs(args) IN
  IF Truthy(Get(args, "sa360_url"))
  THEN [product |-> "sa360", type |-> "sa360", hour |-> hour_or(args, "3"),
        action |-> "fetch", topic |-> "report2bq-trigger",
        attrs |-> Update(attrs, [sa360_url |-> Get(args, "sa360_url"),
                                 type |-> S("sa360")]),
        args |-> args]
  ELSE IF Truthy(Get(args, "adh_customer"))
  THEN [product |-> "adh", type |-> "adh", hour |-> hour_or(args, "2"),
        action |-> "run", topic |-> "report2bq-trigger",
        attrs |-> Update(attrs, [adh_customer |-> Get(args, "adh_customer"),
                                 adh_query |-> Get(args, "adh_query"),
                                 api_key |-> Get(args, "api_key"),
                                 days |-> Get(args, "days"),
                                 type |-> S("adh")]),
        args |-> args]
  ELSE LET r == IF Truthy(Get(args, "runner"))
                THEN [hour |-> hour_or(args, "1"), action |-> "run",
                      topic |-> "rerport_runner"]
                ELSE [hour |-> S("*"), action |-> "fetch",
                      topic |-> "report2bq-trigger"]
           p == profile_part(args, attrs, "dbm")
       IN [product |-> p.product, type |-> p.type, hour |-> r.hour,
           action |-> r.action, topic |-> r.topic, attrs |-> p.attrs,
           args |-> args]

\* name, schedule and the job dict, from the branch's locals b
build_job(b, minute) ==
  [description |-> Get(b.args, "description"),
   timeZone |-> IF Truthy(Get(b.args, "timezone"))
                THEN Get(b.args, "timezone") ELSE S("UTC"),
   api_key |-> Get(b.args, "api_key"),
   name |-> S(b.action \o "-" \o b.product \o "-" \o Get(b.args, "report_id").s),
   schedule |-> S(minute.s \o " " \o b.hour.s \o " * * *"),
   topic |-> S(b.topic),
   attributes |-> b.attrs]

\* the locals of process at the call of create_job, in copy c
process_create(c, args, rnd) ==
  LET b == IF c = "appengine" THEN appengine_branch(args)
                               ELSE classes_branch(args)
      minute == pick_minute(args, rnd)
  IN [topic |-> b.topic, action |-> b.action, hour |-> b.hour,
      type |-> b.type, product |-> b.product, minute |-> minute,
      job |-> build_job(b, minute)]

(***************************************************************************)
(* Scheduler.create_job: the request it sends.                             *)
(***************************************************************************)
create_target(project, job) ==
  [topicName |-> "projects/" \o project.s \o "/topics/"
                   \o GetD(job, "topic", S("")).s,
   attributes |-> GetD(job, "attributes", S(""))]

create_body(project, loc, job) ==
  [name |-> job_path(project, loc, GetD(job, "name", S(""))),
   description |-> GetD(job, "description", S("")),
   schedule |-> GetD(job, "schedule", S("")),
   timeZone |-> GetD(job, "timezone", S("")),
   pubsubTarget |-> create_target(project, job)]

create_args(project, loc, job) ==
  [parent |-> location_path(project, loc),
   body |-> create_body(project, loc, job)]

(***************************************************************************)
(* The scheduling service, as the calls of Scheduler see it.               *)
(***************************************************************************)
\* a locationId is never empty: the `if not location` re-listing inside the
\* operations is not taken when process passes locations[-1]
LocationIds == {"us-central1", "europe-west1"}

\* locations().list: the listings of locationIds the service can answer
\* (each location is listed once)
LocationListings ==
  {ls \in UNION {[1..n -> LocationIds] : n \in 0..MaxLocations} :
     \A i, j \in DOMAIN ls : ls[i] = ls[j] => i = j}

\* jobs as jobs().list returns them
JobA ==
  [name |-> "projects/p1/locations/us-central1/jobs/fetch-dv360-1",
   description |-> "daily fetch",
   pubsubTarget |-> [attributes |-> [email |-> "a@x.com"]]]
JobB ==
  [name |-> "projects/p1/locations/us-central1/jobs/run-cm-2",
   pubsubTarget |-> [attributes |-> [email |-> "b@x.com"]]]
JobNoEmail ==
  [name |-> "projects/p1/locations/us-central1/jobs/run-adh-3",
   pubsubTarget |-> [attributes |-> [type |-> "adh"]]]
JobNoTarget ==
  [name |-> "projects/p1/locations/us-central1/jobs/http-4"]
JobPool == {JobA, JobB, JobNoEmail, JobNoTarget}

\* one page of a listing: its jobs, and whether the response has a 'jobs' key
Pages ==
  {[haskey |-> TRUE, jobs |-> js] :
     js \in UNION {[1..n -> JobPool] : n \in 0..MaxJobs}}
  \cup {[haskey |-> FALSE, jobs |-> << >>]}

RECURSIVE TotalJobs(_)
TotalJobs(ps) ==
  IF ps = << >> THEN 0 ELSE Len(Head(ps).jobs) + TotalJobs(Tail(ps))

\* the listings the service can hold: 1..MaxPages pages, MaxJobs jobs at most
PageSeqs ==
  {ps \in UNION {[1..n -> Pages] : n \in 1..MaxPages} : TotalJobs(ps) <= MaxJobs}

\* nextPageToken that asks for page i
PageToken(i) == "page-" \o ToString(i)

\* jobs().list(parent, pageToken): page 1 for no token, page i for its token;
\* every page but the last carries nextPageToken
service_list(ps, tok) ==
  LET i == IF tok = None THEN 1
           ELSE CHOOSE k \in 1..Len(ps) : PageToken(k) = tok.s
  IN (IF ps[i].haskey THEN [jobs |-> ps[i].jobs] ELSE EmptyDict)
     @@ (IF i < Len(ps) THEN [nextPageToken |-> S(PageToken(i + 1))]
         ELSE EmptyDict)

\* the jobs the service holds when process is called: the job the calls
\* name exists in both locations, enabled in one and paused in the other
ServiceInit ==
  (job_path(S("p1"), S("us-central1"), S("fetch-dv360-1")) :> "ENABLED")
  @@ (job_path(S("p1"), S("europe-west1"), S("fetch-dv360-1")) :> "PAUSED")

\* what a request does to the jobs the service holds: nothing when it fails,
\* nothing for list and get; delete, pause, resume act on the job named,
\* create adds the job of its body
service_apply(sv, op, ok, name) ==
  IF ~ok THEN sv
  ELSE CASE op = "jobs.delete" -> [n \in DOMAIN sv \ {name} |-> sv[n]]
         [] op = "jobs.pause" ->
              [n \in DOMAIN sv |-> IF n = name THEN "PAUSED" ELSE sv[n]]
         [] op = "jobs.resume" ->
              [n \in DOMAIN sv |-> IF n = name THEN "ENABLED" ELSE sv[n]]
         [] op = "jobs.create" -> (name :> "ENABLED") @@ sv
         [] OTHER -> sv

\* HttpError.content of a failed call, and json.loads of it
ErrorContents == {"{\"error\": {\"code\": 404, \"message\": \"Job not found.\"}}"}
json_loads(content) ==
  CASE content = "{\"error\": {\"code\": 404, \"message\": \"Job not found.\"}}"
         -> [error |-> [code |-> I(404), message |-> S("Job not found.")]]

\* request.execute(): one request reaches the service
execute(reqs, r) == Append(reqs, r)

\* Fetcher.fetch(method, **kwargs): the call, executed
fetch(reqs, r) == execute(reqs, r)

(***************************************************************************)
(* Scheduler.list_jobs: aggregation and the email filter.                  *)
(***************************************************************************)
\* extend_jobs with the page's jobs assigned instead of appended
extend_jobs_overwrite(js, resp) ==
  IF "jobs" \in DOMAIN resp THEN resp["jobs"] ELSE << >>

\* jobs.extend(_jobs['jobs'] if 'jobs' in _jobs else [])
extend_jobs(js, resp) ==
  js \o (IF "jobs" \in DOMAIN resp THEN resp["jobs"] ELSE << >>)

\* j.get('pubsubTarget', {}).get('attributes', {}).get('email', '')
job_email(j) ==
  GetD(GetD(GetD(j, "pubsubTarget", EmptyDict), "attributes", EmptyDict),
       "email", "")

\* filter_email with a job that has no email attribute passing the filter
filter_email_keep_missing(js, email) ==
  IF Truthy(email) /\ js # << >>
  THEN SelectSeq(js, LAMBDA j : email.t = "str" /\ job_email(j) \in {email.s, ""})
  ELSE js

\* if email and jobs: jobs = filter(lambda j: ... == email, jobs)
filter_email(js, email) ==
  IF Truthy(email) /\ js # << >>
  THEN SelectSeq(js, LAMBDA j : email.t = "str" /\ job_email(j) = email.s)
  ELSE js

\* f"{job['name']}: {job.get('description') or 'No description.'}<br/>"
html_line(j) ==
  j["name"] \o ": "
    \o (IF GetD(j, "description", "") # "" THEN j["description"]
        ELSE "No description.")
    \o "<br/>"

RECURSIVE html_lines(_)
html_lines(js) ==
  IF js = << >> THEN "" ELSE html_line(Head(js)) \o html_lines(Tail(js))

(***************************************************************************)
(* The calls of process the model starts from.                             *)
(***************************************************************************)
Copies == {"appengine", "classes"}

SelKeys == {"sa360_url", "sa360_id", "adh_customer", "runner", "profile"}

SelValue(k) ==
  CASE k = "sa360_url" -> S("https://sa360/report/1")
    [] k = "sa360_id" -> S("777")
    [] k = "adh_customer" -> S("c9")
    [] k = "runner" -> Bool(TRUE)
    [] k = "profile" -> S("55")

SelectorArgs ==
  {[k \in ks |-> SelValue(k)] :
     ks \in {s \in SUBSET SelKeys : Cardinality(s) <= MaxSelectors}}

HourArgs == {EmptyDict, [hour |-> None], [hour |-> S("")], [hour |-> S("5")]}

MinuteArgs == {EmptyDict, [minute |-> S("30")], [minute |-> I(0)]}

\* the other fields of a create: none given, all given, given but empty
AuxArgs ==
  {EmptyDict,
   [email |-> S("a@x.com"), force |-> Bool(TRUE), infer_schema |-> Bool(FALSE),
    append |-> Bool(TRUE), report_id |-> S("42"), adh_query |-> S("q1"),
    api_key |-> S("k1"), days |-> I(7), description |-> S("nightly"),
    timezone |-> S("Europe/London")],
   [email |-> S(""), report_id |-> S("42"), timezone |-> S("")]}

CreateArgs ==
  {[action |-> S("create"), project |-> S("p1")] @@ s @@ h @@ m @@ a :
     s \in SelectorArgs, h \in HourArgs, m \in MinuteArgs, a \in AuxArgs}

\* html is given (as False) only in calls without an email
ListArgs ==
  {[action |-> S("list"), project |-> S("p1")] @@ e :
     e \in {EmptyDict, [email |-> S("")], [email |-> S("a@x.com")],
            [html |-> Bool(FALSE)]}}

JobArgs ==
  {[action |-> S(a), project |-> S("p1"), job_id |-> S("fetch-dv360-1")] :
     a \in {"get", "delete", "enable", "disable"}}

OtherArgs == {[action |-> S("purge"), project |-> S("p1")], [project |-> S("p1")]}

ArgSets == CreateArgs \cup ListArgs \cup JobArgs \cup OtherArgs

\* the listing the service holds when the call is not a 'list'
NoListing == << [haskey |-> FALSE, jobs |-> << >>] >>

(***************************************************************************)
(* State.                                                                  *)
(***************************************************************************)
VARIABLES
  copy,      \* which copy of the class runs
  args,      \* the args of the call of process
  pages,     \* the job listing the service holds
  pc,        \* position of process: start, dispatch, list_jobs, done
  locations, \* the listing list_locations returned, << >> before
  location,  \* _location of process
  svc,       \* the jobs the service holds: name -> state
  requests,  \* the requests sent to the service so far, each with its outcome
  built,     \* << locals of process at the call of create_job >>, or << >>
  created,   \* << the arguments of jobs().create >>, or << >>
  token,     \* token of list_jobs
  jobs,      \* jobs of list_jobs
  opret,     \* how the operation process called ended
  result     \* how process ended

vars == <<copy, args, pages, pc, locations, location, svc, requests, built,
          created, token, jobs, opret, result>>

Action == Get(args, "action")
Project == Get(args, "project")
Email == Get(args, "email")
Html == GetD(args, "html", Bool(TRUE))

NoRet == [op |-> "", kind |-> "none", flag |-> None, payload |-> << >>]
Running == [kind |-> "running", type |-> "", text |-> ""]
Return(type, text) == [kind |-> "return", type |-> type, text |-> text]
Raise(type) == [kind |-> "raise", type |-> type, text |-> ""]

Request(op, path, tok, ok) ==
  [op |-> op, path |-> path, pageToken |-> tok, ok |-> ok]

Init ==
  /\ copy \in Copies
  /\ args \in ArgSets
  /\ pages \in (IF Get(args, "action") = S("list") THEN PageSeqs ELSE {NoListing})
  /\ pc = "start"
  /\ locations = << >>
  /\ location = None
  /\ svc = ServiceInit
  /\ requests = << >>
  /\ built = << >>
  /\ created = << >>
  /\ token = None
  /\ jobs = << >>
  /\ opret = NoRet
  /\ result = Running

(***************************************************************************)
(* Steps of process.                                                       *)
(***************************************************************************)
\* the actions each copy's process has a branch for
Recognised(c) ==
  IF c = "appengine"
  THEN {S("list"), S("get"), S("delete"), S("enable"), S("disable"), S("create")}
  ELSE {S("list"), S("delete"), S("create")}

OpReturn(op, flag, payload) ==
  [op |-> op, kind |-> "return", flag |-> flag, payload |-> payload]
OpRaise(op) == [op |-> op, kind |-> "raise", flag |-> None, payload |-> << >>]

\* list_locations with process taking locations[0], the first location
list_locations_first ==
  /\ pc = "start"
  /\ \E ok \in BOOLEAN, ls \in LocationListings :
       /\ requests' = fetch(requests,
            Request("locations.list", project_path(Project), None, ok))
       /\ locations' = (IF ok THEN ls ELSE locations)
       /\ IF ~ok
          THEN /\ opret' = OpRaise("list_locations")
               /\ result' = Raise("HttpError")
               /\ pc' = "done"
               /\ location' = location
          ELSE IF ls = << >>
          THEN /\ opret' = OpReturn("list_locations", None, << >>)
               /\ result' = Raise("IndexError")
               /\ pc' = "done"
               /\ location' = location
          ELSE /\ opret' = OpReturn("list_locations", None, << >>)
               /\ result' = result
               /\ pc' = "dispatch"
               /\ location' = S(ls[1])
  /\ UNCHANGED <<copy, args, pages, svc, built, created, token, jobs>>

\* locations = self.list_locations(...); _location = locations[-1]
list_locations ==
  /\ pc = "start"
  /\ \E ok \in BOOLEAN, ls \in LocationListings :
       /\ requests' = fetch(requests,
            Request("locations.list", project_path(Project), None, ok))
       /\ locations' = (IF ok THEN ls ELSE locations)
       /\ IF ~ok
          THEN /\ opret' = OpRaise("list_locations")
               /\ result' = Raise("HttpError")
               /\ pc' = "done"
               /\ location' = location
          ELSE IF ls = << >>
          THEN /\ opret' = OpReturn("list_locations", None, << >>)
               /\ result' = Raise("IndexError")
               /\ pc' = "done"
               /\ location' = location
          ELSE /\ opret' = OpReturn("list_locations", None, << >>)
               /\ result' = result
               /\ pc' = "dispatch"
               /\ location' = S(ls[Len(ls)])
  /\ UNCHANGED <<copy, args, pages, svc, built, created, token, jobs>>

\* process_list with list_jobs listing the locations again (its
\* `if not location` test inverted)
process_list_relocate ==
  /\ pc = "dispatch"
  /\ Action = S("list")
  /\ pc' = "list_jobs"
  /\ token' = None
  /\ jobs' = << >>
  /\ requests' = fetch(requests,
       Request("locations.list", project_path(Project), None, TRUE))
  /\ UNCHANGED <<copy, args, pages, locations, location, svc, built, created,
                 opret, result>>

\* if _action == 'list': the call of list_jobs, up to its loop
process_list ==
  /\ pc = "dispatch"
  /\ Action = S("list")
  /\ pc' = "list_jobs"
  /\ token' = None
  /\ jobs' = << >>
  /\ UNCHANGED <<copy, args, pages, locations, location, svc, requests, built,
                 created,
                 opret, result>>

\* what process returns for 'list' from the jobs list_jobs returned
list_result(c, html, js) ==
  IF c = "classes" \/ Truthy(html)
  THEN Return("str", html_lines(js))
  ELSE Return("list", "")

\* list_jobs with the token of the response never stored (every request
\* carries the first token)
list_jobs_stale_token ==
  /\ pc = "list_jobs"
  /\ \E ok \in BOOLEAN :
       /\ requests' = fetch(requests,
            Request("jobs.list", location_path(Project, location), token, ok))
       /\ IF ~ok
          THEN /\ opret' = OpRaise("list_jobs")
               /\ result' = Raise("HttpError")
               /\ pc' = "done"
               /\ UNCHANGED <<token, jobs>>
          ELSE LET resp == service_list(pages, token)
                   all == extend_jobs(jobs, resp)
               IN IF "nextPageToken" \in DOMAIN resp
                  THEN /\ token' = token
                       /\ jobs' = all
                       /\ UNCHANGED <<pc, opret, result>>
                  ELSE /\ jobs' = filter_email(all, Email)
                       /\ opret' = OpReturn("list_jobs", None, << >>)
                       /\ result' = list_result(copy, Html, jobs')
                       /\ pc' = "done"
                       /\ token' = token
  /\ UNCHANGED <<copy, args, pages, locations, location, svc, built, created>>

\* one turn of the while loop of list_jobs and, at its break, the rest of
\* list_jobs and of the 'list' branch of process
list_jobs ==
  /\ pc = "list_jobs"
  /\ \E ok \in BOOLEAN :
       /\ requests' = fetch(requests,
            Request("jobs.list", location_path(Project, location), token, ok))
       /\ IF ~ok
          THEN /\ opret' = OpRaise("list_jobs")
               /\ result' = Raise("HttpError")
               /\ pc' = "done"
               /\ UNCHANGED <<token, jobs>>
          ELSE LET resp == service_list(pages, token)
                   all == extend_jobs(jobs, resp)
               IN IF "nextPageToken" \in DOMAIN resp
                  THEN /\ token' = resp["nextPageToken"]
                       /\ jobs' = all
                       /\ UNCHANGED <<pc, opret, result>>
                  ELSE /\ jobs' = filter_email(all, Email)
                       /\ opret' = OpReturn("list_jobs", None, << >>)
                       /\ result' = list_result(copy, Html, jobs')
                       /\ pc' = "done"
                       /\ token' = token
  /\ UNCHANGED <<copy, args, pages, locations, location, svc, built, created>>

\* elif _action == 'get' (appengine copy only)
get_job ==
  /\ pc = "dispatch"
  /\ Action = S("get")
  /\ Action \in Recognised(copy)
  /\ \E ok \in BOOLEAN, content \in ErrorContents :
       /\ requests' = execute(requests,
            Request("jobs.get",
                    job_path(Project, location, Get(args, "job_id")), None, ok))
       /\ svc' = service_apply(svc,
            "jobs.get", ok,
            job_path(Project, location, Get(args, "job_id")))
       /\ opret' = IF ok THEN OpReturn("get_job", Bool(TRUE), <<JobA>>)
                   ELSE OpReturn("get_job", Bool(FALSE), <<json_loads(content)>>)
       /\ result' = Return("tuple", "")
  /\ pc' = "done"
  /\ UNCHANGED <<copy, args, pages, locations, location, built, created, token, jobs>>

\* delete_job with the failed request sent again, up to three requests in all
delete_job_retry ==
  /\ pc = "dispatch"
  /\ Action = S("delete")
  /\ \E ok \in BOOLEAN, content \in ErrorContents :
       /\ requests' = execute(requests,
            Request("jobs.delete",
                    job_path(Project, location, Get(args, "job_id")), None, ok))
       /\ svc' = service_apply(svc,
            "jobs.delete", ok,
            job_path(Project, location, Get(args, "job_id")))
       /\ opret' = IF ok THEN OpReturn("delete_job", Bool(TRUE), << >>)
                   ELSE OpReturn("delete_job", Bool(FALSE), <<json_loads(content)>>)
       /\ result' = IF ok THEN Return("str", "OK")
                    ELSE Return("str", "ERROR!\n"
                           \o json_loads(content)["error"]["message"].s)
       /\ pc' = IF ok \/ Len(requests) >= 3 THEN "done" ELSE "dispatch"
  /\ UNCHANGED <<copy, args, pages, locations, location, built, created, token, jobs>>

\* elif _action == 'delete'
delete_job ==
  /\ pc = "dispatch"
  /\ Action = S("delete")
  /\ \E ok \in BOOLEAN, content \in ErrorContents :
       /\ requests' = execute(requests,
            Request("jobs.delete",
                    job_path(Project, location, Get(args, "job_id")), None, ok))
       /\ svc' = service_apply(svc,
            "jobs.delete", ok,
            job_path(Project, location, Get(args, "job_id")))
       /\ opret' = IF ok THEN OpReturn("delete_job", Bool(TRUE), << >>)
                   ELSE OpReturn("delete_job", Bool(FALSE), <<json_loads(content)>>)
       /\ result' = IF ok THEN Return("str", "OK")
                    ELSE Return("str", "ERROR!\n"
                           \o json_loads(content)["error"]["message"].s)
  /\ pc' = "done"
  /\ UNCHANGED <<copy, args, pages, locations, location, built, created, token, jobs>>

\* elif _action == 'enable' / 'disable' (appengine copy only)
enable_job(enable) ==
  /\ pc = "dispatch"
  /\ Action = (IF enable THEN S("enable") ELSE S("disable"))
  /\ Action \in Recognised(copy)
  /\ \E ok \in BOOLEAN, content \in ErrorContents :
       /\ requests' = execute(requests,
            Request(IF enable THEN "jobs.resume" ELSE "jobs.pause",
                    job_path(Project, location, Get(args, "job_id")), None, ok))
       /\ svc' = service_apply(svc,
            IF enable THEN "jobs.resume" ELSE "jobs.pause", ok,
            job_path(Project, location, Get(args, "job_id")))
       /\ opret' = IF ok THEN OpReturn("enable_job", Bool(TRUE), << >>)
                   ELSE OpReturn("enable_job", Bool(FALSE), <<json_loads(content)>>)
       /\ result' = IF ok THEN Return("str", "OK")
                    ELSE Return("str", "ERROR!\n"
                           \o json_loads(content)["error"]["message"].s)
  /\ pc' = "done"
  /\ UNCHANGED <<copy, args, pages, locations, location, built, created, token, jobs>>

\* elif _action == 'create': the job specification and create_job
create_job ==
  /\ pc = "dispatch"
  /\ Action = S("create")
  /\ \E ok \in BOOLEAN,
        rnd \in (IF Truthy(Get(args, "minute")) THEN {0} ELSE randrange) :
       LET l == process_create(copy, args, rnd)
           ca == create_args(Project, location, l.job)
       IN /\ built' = <<l>>
          /\ created' = <<ca>>
          /\ requests' = execute(requests,
               Request("jobs.create", ca.parent, None, ok))
          /\ svc' = service_apply(svc, "jobs.create", ok, ca.body.name)
          /\ opret' = IF ok THEN OpReturn("create_job", None, << >>)
                      ELSE OpRaise("create_job")
          /\ result' = IF ok THEN Return("NoneType", "") ELSE Raise("HttpError")
  /\ pc' = "done"
  /\ UNCHANGED <<copy, args, pages, locations, location, token, jobs>>

\* no branch of process matches the action: process returns None
process_other ==
  /\ pc = "dispatch"
  /\ Action \notin Recognised(copy)
  /\ result' = Return("NoneType", "")
  /\ pc' = "done"
  /\ UNCHANGED <<copy, args, pages, locations, location, svc, requests, built,
                 created,
                 token, jobs, opret>>

Next ==
  \/ list_locations
  \/ process_list
  \/ list_jobs
  \/ get_job
  \/ delete_job
  \/ enable_job(TRUE)
  \/ enable_job(FALSE)
  \/ create_job
  \/ process_other

Spec == Init /\ [][Next]_vars

\* the calls of process with action 'list', and their steps
ListInit == Init /\ Get(args, "action") = S("list")

ListNext ==
  \/ list_locations
  \/ process_list
  \/ list_jobs

\* a call with action 'list'; the loop of list_jobs runs on: a call of fetch
\* that is due is made
FairSpec == ListInit /\ [][ListNext]_vars /\ WF_vars(list_jobs)

(***************************************************************************)
(* Properties.                                                             *)
(***************************************************************************)
Last(s) == s[Len(s)]

\* the jobs of all pages of a listing, in page order
RECURSIVE AllJobs(_)
AllJobs(ps) == IF ps = << >> THEN << >> ELSE Head(ps).jobs \o AllJobs(Tail(ps))

\* the first selector field present, in the order the mapping is documented
\* in; the classes copy has no sa360_id branch
FirstSelector(c, a) ==
  IF Truthy(Get(a, "sa360_url")) THEN "sa360_url"
  ELSE IF Truthy(Get(a, "sa360_id")) /\ c = "appengine" THEN "sa360_id"
  ELSE IF Truthy(Get(a, "adh_customer")) THEN "adh_customer"
  ELSE IF Truthy(Get(a, "runner")) THEN "runner"
  ELSE "none"

CallerHourOr(a, d) == IF Truthy(Get(a, "hour")) THEN Get(a, "hour").s ELSE d

ProfileType(a) == IF Truthy(Get(a, "profile")) THEN "cm" ELSE "dv360"

\* the documented mapping from the fields present to the tuple
DocumentedTuple(a) ==
  LET f == FirstSelector("appengine", a) IN
  CASE f = "sa360_url" ->
         [topic |-> "report2bq-trigger", action |-> "fetch",
          hour |-> CallerHourOr(a, "3"), type |-> "sa360"]
    [] f = "sa360_id" ->
         [topic |-> "report-runner", action |-> "run",
          hour |-> CallerHourOr(a, "*"), type |-> SA360_RPT]
    [] f = "adh_customer" ->
         [topic |-> "report2bq-trigger", action |-> "run",
          hour |-> CallerHourOr(a, "2"), type |-> "adh"]
    [] f = "runner" ->
         [topic |-> "report-runner", action |-> "run",
          hour |-> CallerHourOr(a, "1"), type |-> ProfileType(a)]
    [] f = "none" ->
         [topic |-> "report2bq-trigger", action |-> "fetch",
          hour |-> "*", type |-> ProfileType(a)]

\* C1: for every create, the (topic, action, hour, type attribute) tuple
\* process derives is the documented one for the first selector field present
\* (sa360_url, sa360_id, adh_customer, runner, none), in both copies.
C1_DerivedTupleMatchesMapping ==
  built # << >> =>
    [topic |-> built[1].topic, action |-> built[1].action,
     hour |-> built[1].hour.s,
     type |-> built[1].job.attributes["type"].s] = DocumentedTuple(args)

ListReturned == opret.op = "list_jobs" /\ opret.kind = "return"

\* C2: list_jobs called without an email returns exactly the concatenation of
\* the jobs of all pages, in page order; a page without a 'jobs' key adds
\* nothing and does not stop the aggregation.
C2_ListAggregatesAllPages ==
  (ListReturned /\ ~Truthy(Email)) => jobs = AllJobs(pages)

C2_Witness ==
  /\ ListReturned
  /\ ~Truthy(Email)
  /\ Len(pages) >= 2
  /\ ~pages[1].haskey
  /\ Len(jobs) >= 2

\* a job carries the email e in pubsubTarget.attributes.email
HasEmail(j, e) ==
  /\ "pubsubTarget" \in DOMAIN j
  /\ "attributes" \in DOMAIN j["pubsubTarget"]
  /\ "email" \in DOMAIN j["pubsubTarget"]["attributes"]
  /\ j["pubsubTarget"]["attributes"]["email"] = e

\* C3: with a non-empty email list_jobs returns exactly the aggregated jobs
\* whose pubsubTarget.attributes.email equals it, in their order; with an
\* empty or absent email it returns every aggregated job.
C3_EmailFilterExact ==
  ListReturned =>
    jobs = (IF Email.t = "str" /\ Email.s # ""
            THEN SelectSeq(AllJobs(pages), LAMBDA j : HasEmail(j, Email.s))
            ELSE AllJobs(pages))

C3_Witness ==
  /\ ListReturned
  /\ Truthy(Email)
  /\ Len(pages) = 2
  /\ Len(pages[1].jobs) = 1
  /\ ~HasEmail(pages[1].jobs[1], Email.s)
  /\ pages[2].jobs = <<JobA>>
  /\ jobs = <<JobA>>

\* C4: a failure of the remote call of any operation is returned by that
\* operation as (False, decoded error body), never raised; a successful call
\* returns the flag True.
C4_FailuresReturnedAsPair ==
  (pc = "done" /\ requests # << >>) =>
    IF Last(requests).ok
    THEN opret.kind = "return" /\ opret.flag = Bool(TRUE)
    ELSE /\ opret.kind = "return"
         /\ opret.flag = Bool(FALSE)
         /\ \E c \in ErrorContents : opret.payload = <<json_loads(c)>>

\* C5 as stated: every invocation of process sends exactly one request.
C5_SingleRemoteCall == pc = "done" => Len(requests) = 1

\* the actions that cost one job request in copy c
OneRequestActions(c) == Recognised(c) \ {S("list")}

\* C5, amended: process first makes one call listing the locations; if that
\* fails or lists no location nothing else is sent; otherwise it makes one
\* call for the job request of an action it has a branch for, one call per
\* page for 'list' (up to the first failing one), and none for any other action.
C5_RequestsPerInvocation ==
  pc = "done" =>
    /\ Len(requests) >= 1
    /\ requests[1].op = "locations.list"
    /\ \A i \in 2..Len(requests) : requests[i].op # "locations.list"
    /\ IF ~requests[1].ok \/ result.type = "IndexError"
       THEN Len(requests) = 1
       ELSE IF Action \in OneRequestActions(copy) THEN Len(requests) = 2
       ELSE IF Action = S("list")
       THEN /\ Len(requests) - 1 \in 1..Len(pages)
            /\ \A i \in 2..(Len(requests) - 1) : requests[i].ok
            /\ Len(requests) - 1 < Len(pages) => ~Last(requests).ok
       ELSE Len(requests) = 1

C5_Witness ==
  /\ pc = "done"
  /\ Action = S("list")
  /\ Len(pages) = 2
  /\ Len(requests) = 3
  /\ result.kind = "return"

PipelineTopics == {"report2bq-trigger", "report-runner"}

\* C6: every create request has parent projects/{project}/locations/{location},
\* body name {parent}/jobs/{action}-{product}-{report_id} and topicName
\* projects/{project}/topics/{topic} with topic one of the two pipeline topics.
C6_CreateRequestPaths ==
  created # << >> =>
    LET parent == "projects/" \o Project.s \o "/locations/" \o location.s IN
    /\ created[1].parent = parent
    /\ \E rid \in {Get(args, "report_id").s, Get(args, "sa360_id").s} :
         created[1].body.name =
           parent \o "/jobs/" \o built[1].action \o "-" \o built[1].product
                  \o "-" \o rid
    /\ \E tp \in PipelineTopics :
         created[1].body.pubsubTarget.topicName =
           "projects/" \o Project.s \o "/topics/" \o tp

\* C7: the attributes sent as pubsubTarget.attributes map to strings only.
C7_AttributesAreStrings ==
  created # << >> =>
    LET at == created[1].body.pubsubTarget.attributes IN
    \A k \in DOMAIN at : at[k].t = "str"

FailingJobOps == {"jobs.delete", "jobs.get", "jobs.pause", "jobs.resume"}

\* C8: a failed delete, get, pause or resume request is the last request of
\* the invocation and the only one of its kind: the operation ended after that
\* one attempt, with no retry and no other job request after it.
C8_NoRetryAfterFailure ==
  \A i \in DOMAIN requests :
    (requests[i].op \in FailingJobOps /\ ~requests[i].ok) =>
      /\ i = Len(requests)
      /\ pc = "done"
      /\ opret.kind = "return"
      /\ Cardinality({j \in DOMAIN requests : requests[j].op \in FailingJobOps}) = 1

C8_Witness ==
  /\ pc = "done"
  /\ Len(requests) = 2
  /\ requests[2].op \in FailingJobOps
  /\ ~requests[2].ok
  /\ opret.flag = Bool(FALSE)

\* C9: the timeZone of the body create_job sends is the caller's timezone
\* when it is non-empty and 'UTC' otherwise, as in the job specification, and
\* never the empty string.
C9_TimeZoneCarried ==
  created # << >> =>
    /\ built[1].job.timeZone = created[1].body.timeZone
    /\ created[1].body.timeZone =
         (IF Truthy(Get(args, "timezone")) THEN Get(args, "timezone")
          ELSE S("UTC"))
    /\ created[1].body.timeZone.s # ""

\* the hour default of the branch selected
BranchDefaultHour(c, a) ==
  LET f == FirstSelector(c, a) IN
  CASE f = "sa360_url" -> "3"
    [] f = "sa360_id" -> "*"
    [] f = "adh_customer" -> "2"
    [] f = "runner" -> "1"
    [] f = "none" -> "*"

\* C10: every schedule built is '<minute> <hour> * * *' with the minute the
\* caller's when supplied and else an integer of 0..59, and the hour the
\* caller's when non-empty and else the branch default, never 'None' or empty.
C10_ScheduleWellFormed ==
  built # << >> =>
    LET h == IF FirstSelector(copy, args) = "none" THEN "*"
             ELSE CallerHourOr(args, BranchDefaultHour(copy, args))
        ms == IF "minute" \in DOMAIN args THEN {args["minute"].s}
              ELSE {ToString(m) : m \in 0..59}
    IN /\ h \notin {"None", ""}
       /\ \E m \in ms : built[1].job.schedule.s = m \o " " \o h \o " * * *"

\* the list requests sent so far, and the response the service gave the k-th
ListRequests == SelectSeq(requests, LAMBDA r : r.op = "jobs.list")
ListResponse(k) == service_list(pages, ListRequests[k].pageToken)

\* the token protocol, as a predicate on the requests sent so far
TokenProtocol ==
  LET lr == ListRequests IN
  /\ lr # << >> => lr[1].pageToken = None
  /\ \A i \in 2..Len(lr) :
       /\ lr[i - 1].ok
       /\ "nextPageToken" \in DOMAIN ListResponse(i - 1)
       /\ lr[i].pageToken = ListResponse(i - 1)["nextPageToken"]
  /\ \A i \in 1..Len(lr) :
       (lr[i].ok /\ "nextPageToken" \notin DOMAIN ListResponse(i)) =>
         (i = Len(lr) /\ pc = "done")
  /\ Len(lr) <= Len(pages)
  /\ ListReturned => Len(lr) = Len(pages)

\* C11: the first list request carries no page token, each later one carries
\* exactly the nextPageToken of the response before it, no request follows
\* the first response without nextPageToken, a listing of n pages costs n
\* list requests, and the loop, once entered, ends.
C11_TokenProtocolAndTermination ==
  /\ []TokenProtocol
  /\ (pc = "list_jobs") ~> (pc = "done")

C11_Witness ==
  /\ ListReturned
  /\ Len(pages) = 2
  /\ Len(ListRequests) = 2
  /\ ListRequests[1].pageToken = None
  /\ ListRequests[2].pageToken = S(PageToken(2))

\* the requests that change the jobs the service holds
ChangingOps == {"jobs.delete", "jobs.resume", "jobs.pause", "jobs.create"}
ChangingRequests == {i \in DOMAIN requests : requests[i].op \in ChangingOps}

\* the request an action sends, by the action alone
ChangingOpOf(a) ==
  CASE a = S("delete") -> "jobs.delete"
    [] a = S("enable") -> "jobs.resume"
    [] a = S("disable") -> "jobs.pause"
    [] a = S("create") -> "jobs.create"
    [] OTHER -> "none"

\* the job named by job_id in the last location of the listing
TargetJob ==
  "projects/" \o Project.s \o "/locations/" \o Last(locations)
    \o "/jobs/" \o Get(args, "job_id").s

\* C12: process first lists the locations and targets the last one listed;
\* after that it sends at most one state-changing job request, the one of its
\* action (delete, resume for enable, pause for disable, create), for delete,
\* enable and disable addressed to the job job_id of that location; list, get
\* and any other action send none, and leave the jobs of the service and
\* their state as they were.
C12_FrameEffect ==
  /\ requests # << >> => requests[1].op = "locations.list"
  /\ Len(requests) >= 2 =>
       /\ requests[1].ok
       /\ locations # << >>
       /\ location = S(Last(locations))
  /\ Cardinality(ChangingRequests) <= 1
  /\ \A i \in ChangingRequests :
       /\ i = 2
       /\ requests[i].op = ChangingOpOf(Action)
       /\ requests[i].path =
            (IF Action = S("create")
             THEN "projects/" \o Project.s \o "/locations/" \o Last(locations)
             ELSE TargetJob)
       /\ \A n \in (DOMAIN svc \cup DOMAIN ServiceInit) \
                     (IF Action = S("create") THEN {created[1].body.name}
                      ELSE {TargetJob}) :
            /\ n \in DOMAIN svc
            /\ n \in DOMAIN ServiceInit
            /\ svc[n] = ServiceInit[n]
  /\ ChangingOpOf(Action) = "none" =>
       (ChangingRequests = {} /\ svc = ServiceInit)
  /\ ChangingRequests = {} => svc = ServiceInit

C12_Witness ==
  /\ pc = "done"
  /\ Action = S("disable")
  /\ locations = <<"europe-west1", "us-central1">>
  /\ Len(requests) = 2
  /\ requests[2].op = "jobs.pause"
  /\ requests[2].ok
  /\ svc[TargetJob] = "PAUSED"
  /\ ServiceInit[TargetJob] = "ENABLED"

====
